---- MODULE Spec2Model ----
(***************************************************************************)
(* Model of the Audiobookshelf integration for Home Assistant:             *)
(*   custom_components/audiobookshelf/__init__.py  (integration setup)     *)
(*   custom_components/audiobookshelf/sensor.py    (registry, coordinator, *)
(*                                                   sensor entities)      *)
(*   custom_components/audiobookshelf/binary_sensor.py  (is_on)            *)
(* JSON documents and Python values are tagged records [t, v]; a Python    *)
(* call is an operator giving the exception it raises (or "none"), the     *)
(* value it returns and, where the code mutates its argument, the argument *)
(* as the call leaves it.                                                  *)
(***************************************************************************)
EXTENDS Integers, Sequences, FiniteSets, TLC

(* ------------------------------ bounds -------------------------------- *)
\* libraries the server can list: lib1 .. lib<MaxLibraries>
MaxLibraries == 1
\* periodic refresh cycles of one coordinator (its first refresh is not
\* counted)
MaxCycles == 1

(* --------------------------- program constants ------------------------ *)
HTTP_OK == 200

(* ------------------------------ JSON ---------------------------------- *)
JNull == [t |-> "null", v |-> 0]
JBool(b) == [t |-> "bool", v |-> b]
JNum(n) == [t |-> "num", v |-> n]
\* a Python float, kept in hundredths (1.0 is JFloat(100))
JFloat(h) == [t |-> "float", v |-> h]
JStr(s) == [t |-> "str", v |-> s]
JArr(a) == [t |-> "arr", v |-> a]
JObj(o) == [t |-> "obj", v |-> o]
EmptyDict == <<>>
PyNone == JNull

\* the result of a Python call
Ret(val) == [raised |-> "none", value |-> val]
Raise(exc) == [raised |-> exc, value |-> PyNone]

HasKey(obj, k) == k \in DOMAIN obj.v
\* dict.get(k) with the default None
DictGet(obj, k) == IF HasKey(obj, k) THEN obj.v[k] ELSE PyNone
\* Python truthiness of a JSON value
Truthy(j) ==
    CASE j.t = "null" -> FALSE
      [] j.t = "bool" -> j.v
      [] j.t = "num" -> j.v # 0
      [] j.t = "float" -> j.v # 0
      [] j.t = "str" -> j.v # ""
      [] j.t = "arr" -> Len(j.v) > 0
      [] j.t = "obj" -> DOMAIN j.v # {}
\* x in (0, None): Python compares with ==, so 0.0 is 0
InZeroNone(x) == x.t = "null" \/ (x.t \in {"num", "float"} /\ x.v = 0)

(* ----------------------- extraction functions ------------------------- *)
\* iterating `for user in data["users"]` needs a list; the modelled bodies
\* hold a list, null or nothing there
RECURSIVE CountUsersFrom(_, _, _)
CountUsersFrom(users, i, count) ==
    IF i > Len(users) THEN Ret(JNum(count))
    ELSE LET user == users[i] IN
         IF user.t # "obj" THEN Raise("TypeError")
         ELSE IF ~HasKey(user, "isActive") THEN Raise("KeyError")
         ELSE IF ~Truthy(user.v["isActive"]) THEN CountUsersFrom(users, i + 1, count)
         ELSE IF ~HasKey(user, "username") THEN Raise("KeyError")
         ELSE IF user.v["username"] # JStr("hass")
              THEN CountUsersFrom(users, i + 1, count + 1)
              ELSE CountUsersFrom(users, i + 1, count)

count_active_users(data) ==
    IF ~HasKey(data, "users") THEN Raise("KeyError")
    ELSE IF data.v["users"].t # "arr" THEN Raise("TypeError")
    ELSE CountUsersFrom(data.v["users"].v, 1, 0)

\* user["token"] = "<redacted>" on each user, in place: `users` as the loop
\* leaves it, with the exception that stopped it
RECURSIVE RedactFrom(_, _)
RedactFrom(users, i) ==
    IF i > Len(users) THEN [raised |-> "none", users |-> users]
    ELSE IF users[i].t # "obj" THEN [raised |-> "TypeError", users |-> users]
    ELSE RedactFrom(
           [users EXCEPT ![i] =
              JObj([k \in DOMAIN users[i].v \cup {"token"} |->
                      IF k = "token" THEN JStr("<redacted>") ELSE users[i].v[k]])],
           i + 1)

\* returns its argument, which it has changed: `data` is the argument after
\* the call
clean_user_attributes(data) ==
    IF ~HasKey(data, "users") THEN [raised |-> "KeyError", value |-> PyNone, data |-> data]
    ELSE IF data.v["users"].t # "arr"
         THEN [raised |-> "TypeError", value |-> PyNone, data |-> data]
    ELSE LET r == RedactFrom(data.v["users"].v, 1)
             after == JObj([data.v EXCEPT !["users"] = JArr(r.users)])
         IN  [raised |-> r.raised,
              value |-> IF r.raised = "none" THEN after ELSE PyNone,
              data |-> after]

\* len(x) of a JSON value
PyLen(j) ==
    CASE j.t = "arr" -> Ret(JNum(Len(j.v)))
      [] j.t = "obj" -> Ret(JNum(Cardinality(DOMAIN j.v)))
      [] OTHER -> Raise("TypeError")

count_open_sessions(data) ==
    IF ~HasKey(data, "openSessions") THEN Raise("KeyError")
    ELSE PyLen(data.v["openSessions"])

count_libraries(data) ==
    IF ~HasKey(data, "libraries") THEN Raise("KeyError")
    ELSE PyLen(data.v["libraries"])

RECURSIVE DetailsFrom(_, _, _)
DetailsFrom(libs, i, details) ==
    IF i > Len(libs) THEN Ret(JObj(details))
    ELSE LET library == libs[i] IN
         IF library.t # "obj" THEN Raise("AttributeError")
         ELSE LET library_id == DictGet(library, "id") IN
              IF Truthy(library_id) /\ library_id.t = "str"
              THEN DetailsFrom(libs, i + 1,
                     (library_id.v :> JObj([mediaType |-> DictGet(library, "mediaType"),
                                            provider |-> DictGet(library, "provider")]))
                     @@ details)
              ELSE DetailsFrom(libs, i + 1, details)

extract_library_details(data) ==
    IF ~HasKey(data, "libraries") THEN Ret(JObj(EmptyDict))
    ELSE IF data.v["libraries"].t # "arr" THEN Raise("TypeError")
    ELSE DetailsFrom(data.v["libraries"].v, 1, EmptyDict)

get_library_stats(data) == extract_library_details(data)

do_nothing(data) == Ret(data)

\* round(n / d) to the nearest integer, ties to the even one, as Python's
\* round() does; n >= 0, d > 0
RoundHalfEven(n, d) ==
    LET q == n \div d
        r == n % d
    IN  IF 2 * r < d THEN q
        ELSE IF 2 * r > d THEN q + 1
        ELSE IF q % 2 = 0 THEN q ELSE q + 1

\* round(total_duration / 60.0 / 60.0, 0): a float with no decimals
get_total_duration_minutes(total_duration) ==
    IF total_duration.t = "null" THEN Ret(PyNone)
    ELSE IF total_duration.t # "num" THEN Raise("TypeError")
    ELSE Ret(JFloat(100 * RoundHalfEven(total_duration.v, 60)))
get_total_duration(total_duration) ==
    IF total_duration.t = "null" THEN Ret(PyNone)
    ELSE IF total_duration.t # "num" THEN Raise("TypeError")
    ELSE Ret(JFloat(100 * RoundHalfEven(total_duration.v, 3600)))

\* round(total_size / 1024.0 / 1024.0 / 1024.0, 2), in hundredths of a GB.
\* With total_size = m * 2^20 + b, 100 * total_size / 2^30 is
\* i + (f * 2^20 + 100 * b) / 2^30 where 100 * m = i * 2^10 + f, which keeps
\* every intermediate value below 2^31.
get_total_size(total_size) ==
    IF total_size.t = "null" THEN Ret(PyNone)
    ELSE IF total_size.t # "num" THEN Raise("TypeError")
    ELSE LET m == total_size.v \div 1048576
             b == total_size.v % 1048576
             i == (100 * m) \div 1024
             f == (100 * m) % 1024
             num == f * 1048576 + 100 * b
             whole == num \div 1073741824
             rest == num % 1073741824
             h == i + whole
         IN  Ret(JFloat(IF rest < 536870912 THEN h
                        ELSE IF rest > 536870912 THEN h + 1
                        ELSE IF h % 2 = 0 THEN h ELSE h + 1))

\* try: data["serverSettings"]["version"]  except KeyError: None
extract_server_version(data) ==
    IF ~HasKey(data, "serverSettings") THEN Ret(PyNone)
    ELSE LET settings == data.v["serverSettings"] IN
         IF settings.t # "obj" THEN Raise("TypeError")
         ELSE IF ~HasKey(settings, "version") THEN Ret(PyNone)
         ELSE Ret(settings.v["version"])

\* the three lambdas of generate_library_sensors
lambda_size(data) == get_total_size(DictGet(data, "totalSize"))
lambda_items(data) == Ret(DictGet(data, "totalItems"))
lambda_duration(data) == get_total_duration(DictGet(data, "totalDuration"))

\* sensor["data_function"](data)
ProcessData(fn, data) ==
    CASE fn = "count_active_users" -> count_active_users(data)
      [] fn = "count_open_sessions" -> count_open_sessions(data)
      [] fn = "count_libraries" -> count_libraries(data)
      [] fn = "extract_server_version" -> extract_server_version(data)
      [] fn = "lambda_size" -> lambda_size(data)
      [] fn = "lambda_items" -> lambda_items(data)
      [] fn = "lambda_duration" -> lambda_duration(data)

\* sensor["attributes_function"](data): the exception, the returned mapping
\* and the argument as the call leaves it
ProcessAttributes(fn, data) ==
    CASE fn = "clean_user_attributes" -> clean_user_attributes(data)
      [] fn = "get_library_stats" ->
           [raised |-> get_library_stats(data).raised,
            value |-> get_library_stats(data).value, data |-> data]
      [] fn = "do_nothing" ->
           [raised |-> "none", value |-> do_nothing(data).value, data |-> data]


(* --------------------------- sensor registry -------------------------- *)
\* `sensors` is a Python dict: an insertion-ordered sequence of descriptors,
\* one per key
Descriptor(key, endpoint, name, unique_id, data_function, attributes_function, unit) ==
    [key |-> key, endpoint |-> endpoint, name |-> name, unique_id |-> unique_id,
     data_function |-> data_function, attributes_function |-> attributes_function,
     unit |-> unit]

\* the module-level dict as the import leaves it ("" stands for no unique_id)
FixedSensors ==
    << Descriptor("users", "api/users", "Audiobookshelf Users", "",
                  "count_active_users", "clean_user_attributes", "users"),
       Descriptor("sessions", "api/users/online", "Audiobookshelf Open Sessions", "",
                  "count_open_sessions", "do_nothing", "sessions"),
       Descriptor("libraries", "api/libraries", "Audiobookshelf Libraries", "",
                  "count_libraries", "get_library_stats", "libraries"),
       Descriptor("server_version", "api/authorize", "Audiobookshelf Server Version", "",
                  "extract_server_version", "do_nothing", "version") >>

Keys(reg) == {reg[i].key : i \in 1..Len(reg)}
IndexOf(reg, key) == CHOOSE i \in 1..Len(reg) : reg[i].key = key
Lookup(reg, key) == reg[IndexOf(reg, key)]

\* dict.update with one item: an existing key keeps its place
DictSetAppending(reg, d) == Append(reg, d)
DictSet(reg, d) ==
    IF d.key \in Keys(reg) THEN [reg EXCEPT ![IndexOf(reg, d.key)] = d]
    ELSE Append(reg, d)

StatsEndpoint(id) == "api/libraries/" \o id \o "/stats"
BaseId(id) == "library_" \o id

\* the three descriptors generate_library_sensors makes for one library
LibrarySensors(library) ==
    << Descriptor(BaseId(library.id) \o "_size", StatsEndpoint(library.id),
                  "Audiobookshelf " \o library.name \o " Size",
                  BaseId(library.id) \o "_size", "lambda_size", "do_nothing", "GB"),
       Descriptor(BaseId(library.id) \o "_items", StatsEndpoint(library.id),
                  "Audiobookshelf " \o library.name \o " Items",
                  BaseId(library.id) \o "_items", "lambda_items", "do_nothing", "items"),
       Descriptor(BaseId(library.id) \o "_duration", StatsEndpoint(library.id),
                  "Audiobookshelf " \o library.name \o " Duration",
                  BaseId(library.id) \o "_duration", "lambda_duration", "do_nothing",
                  "hours") >>

UpdateWith(reg, ds) == DictSet(DictSet(DictSet(reg, ds[1]), ds[2]), ds[3])

\* generate_library_sensors: sensors.update(...) for each library in turn
RECURSIVE generate_library_sensors(_, _)
generate_library_sensors(reg, libraries) ==
    IF libraries = <<>> THEN reg
    ELSE generate_library_sensors(UpdateWith(reg, LibrarySensors(Head(libraries))),
                                  Tail(libraries))

\* {sensor["endpoint"] for sensor in sensors.values()}
UniqueEndpoints(reg) == {reg[i].endpoint : i \in 1..Len(reg)}

(* ------------------------------ server -------------------------------- *)
LibraryIndex == 1..MaxLibraries
LibId(i) == "lib" \o ToString(i)
LibName(i) == IF i = 1 THEN "Books" ELSE "Shelf" \o ToString(i)
LibraryIds == {LibId(i) : i \in LibraryIndex}

\* one entry of the "libraries" list of GET api/libraries
LibraryJson(i) ==
    JObj([id |-> JStr(LibId(i)), name |-> JStr(LibName(i)),
          mediaType |-> JStr("book"), provider |-> JStr("audible")])

\* the entries of the libraries i of `chosen`, by rising i
RECURSIVE LibraryList(_, _)
LibraryList(chosen, i) ==
    IF i > MaxLibraries THEN <<>>
    ELSE (IF i \in chosen THEN <<LibraryJson(i)>> ELSE <<>>) \o LibraryList(chosen, i + 1)

UsersBodies ==
    { JObj([users |-> JArr(<< JObj([username |-> JStr("alice"), isActive |-> JBool(TRUE),
                                    token |-> JStr("abc")]),
                              JObj([username |-> JStr("hass"), isActive |-> JBool(TRUE),
                                    token |-> JStr("xyz")]) >>)]) }
\* one open session, none, no "openSessions" key, and a body that is a list
SessionsBodies ==
    { JObj([openSessions |-> JArr(<< JObj([id |-> JStr("s1")]) >>)]),
      JObj([openSessions |-> JArr(<<>>)]),
      JObj([message |-> JStr("ok")]),
      JArr(<<>>) }
\* what discovery may be answered with: every library, none, or a body that
\* is a list
DiscoveryBodies ==
    { JObj([libraries |-> JArr(LibraryList(chosen, 1))]) : chosen \in {LibraryIndex, {}} }
    \cup { JArr(<<>>) }
\* what a refresh is answered with: every library
LibrariesBodies ==
    { JObj([libraries |-> JArr(LibraryList(LibraryIndex, 1))]) }
AuthorizeBodies ==
    { JObj([serverSettings |-> JObj([version |-> JStr("2.7.0")])]),
      JObj([user |-> JObj([username |-> JStr("hass")])]) }
StatsBodies ==
    { JObj([totalSize |-> JNum(1073741824), totalItems |-> JNum(10),
            totalDuration |-> JNum(3600)]) }

\* the JSON bodies the server may answer a GET of `endpoint` with
Bodies(endpoint) ==
    CASE endpoint = "api/users" -> UsersBodies
      [] endpoint = "api/users/online" -> SessionsBodies
      [] endpoint = "api/libraries" -> LibrariesBodies
      [] endpoint = "api/authorize" -> AuthorizeBodies
      [] OTHER -> StatsBodies

\* what `async with session.get(url)` gives: a response with a status, or an
\* aiohttp.ClientError
Http(status, body) == [kind |-> "response", status |-> status, body |-> body]
ClientError == [kind |-> "ClientError", status |-> 0, body |-> JNull]
Failures == {Http(500, JNull), ClientError}
Responses(endpoint) == {Http(HTTP_OK, b) : b \in Bodies(endpoint)} \cup Failures
DiscoveryResponses == {Http(HTTP_OK, b) : b \in DiscoveryBodies} \cup Failures
Ok(resp) == resp.kind = "response" /\ resp.status = HTTP_OK


(* -------------------------- library discovery ------------------------- *)
\* _convert_key on the keys of the modelled library entries
ConvertKey(key) ==
    CASE key = "mediaType" -> "media_type"
      [] key = "lastScan" -> "last_scan"
      [] OTHER -> key

\* camel_to_snake on one library entry (its values are not containers)
camel_to_snake(obj) ==
    JObj([k \in {ConvertKey(c) : c \in DOMAIN obj.v} |->
            obj.v[CHOOSE c \in DOMAIN obj.v : ConvertKey(c) = k]])

\* from_dict(data_class=Library, ...): the fields the integration reads
Library(snake) ==
    [id |-> snake.v["id"].v, name |-> snake.v["name"].v,
     media_type |-> DictGet(snake, "media_type"), provider |-> DictGet(snake, "provider")]

\* get_libraries: the list it returns, or the exception that leaves it
get_libraries(resp) ==
    IF resp.kind = "ClientError" THEN Ret(<<>>)
    ELSE IF resp.status # HTTP_OK THEN Ret(<<>>)
    ELSE IF resp.body.t # "obj" THEN Raise("AttributeError")
    ELSE IF ~HasKey(resp.body, "libraries") THEN Ret(<<>>)
    ELSE LET libraries_data == resp.body.v["libraries"].v
         IN  Ret([i \in 1..Len(libraries_data) |->
                    Library(camel_to_snake(libraries_data[i]))])

(* --------------------------- sensor entity ---------------------------- *)
\* AudiobookshelfSensor.__init__; restored_attributes is self._attributes,
\* which only async_added_to_hass sets
AudiobookshelfSensor(sensor) ==
    [key |-> sensor.key, endpoint |-> sensor.endpoint,
     data_function |-> sensor.data_function,
     attributes_function |-> sensor.attributes_function,
     state |-> PyNone, extra_state_attributes |-> JObj(EmptyDict),
     restored_attributes |-> PyNone]

\* dict.update: the keys of `new` override
DictUpdate(old, new) == JObj(new.v @@ old.v)

\* the condition under which async_update stores new_state
StoresNewStateNonZeroOnly(state, new_state) == ~InZeroNone(new_state)
StoresNewState(state, new_state) == ~InZeroNone(new_state) \/ InZeroNone(state)

\* isinstance(endpoint_data, dict)
IsDictOrList(endpoint_data) == endpoint_data.t \in {"obj", "arr"}
IsDict(endpoint_data) == endpoint_data.t = "obj"

\* async_update on entity `ent` with coordinator.data = cdata: the entity and
\* the coordinator data as the call leaves them, the exception that leaves it,
\* and whether the two functions were called
async_update(ent, cdata) ==
    LET untouched == [entity |-> ent, data |-> cdata, raised |-> "none",
                      attributes_called |-> FALSE, data_called |-> FALSE,
                      new_state |-> PyNone]
    IN
    IF ~Truthy(cdata) THEN untouched
    ELSE
      LET present == HasKey(cdata, ent.endpoint)
          endpoint_data == IF present THEN cdata.v[ent.endpoint] ELSE JObj(EmptyDict)
      IN
      IF ~IsDict(endpoint_data) THEN untouched
      ELSE
        LET pa == ProcessAttributes(ent.attributes_function, endpoint_data)
            \* endpoint_data is the cached object itself when the key is there
            cdata1 == IF present
                      THEN JObj([cdata.v EXCEPT ![ent.endpoint] = pa.data])
                      ELSE cdata
        IN
        IF pa.raised # "none"
        THEN [untouched EXCEPT !.data = cdata1, !.raised = pa.raised,
                               !.attributes_called = TRUE]
        ELSE
          LET ent1 == [ent EXCEPT !.extra_state_attributes =
                                     DictUpdate(ent.extra_state_attributes, pa.value)]
              pd == ProcessData(ent.data_function, pa.data)
          IN
          IF pd.raised # "none"
          THEN [entity |-> ent1, data |-> cdata1, raised |-> pd.raised,
                attributes_called |-> TRUE, data_called |-> TRUE,
                new_state |-> PyNone]
          ELSE [entity |-> IF StoresNewState(ent.state, pd.value)
                           THEN [ent1 EXCEPT !.state = pd.value] ELSE ent1,
                data |-> cdata1, raised |-> "none",
                attributes_called |-> TRUE, data_called |-> TRUE,
                new_state |-> pd.value]

\* what async_get_last_state gives: nothing, or the persisted state (a state
\* is always stored as a string)
NoLastState == [exists |-> FALSE, state |-> PyNone, attributes |-> PyNone]
StoredLastState ==
    [exists |-> TRUE, state |-> JStr("7"),
     attributes |-> JObj([friendly_name |-> JStr("restored")])]
LastStates == {NoLastState, StoredLastState}

\* async_added_to_hass
async_added_to_hass(ent, last_state) ==
    IF ent.endpoint # "api/authorize" /\ last_state.exists
    THEN [ent EXCEPT !.state = last_state.state,
                     !.restored_attributes = last_state.attributes]
    ELSE ent



(* --------------------------- binary sensor ---------------------------- *)
\* an object whose get raises exc
Faulty(exc) == [t |-> "faulty", v |-> exc]

\* x.get(key, ""): a dict gives the value or the default, anything else in
\* JSON has no get
PyGet(x, key) ==
    CASE x.t = "obj" -> Ret(IF HasKey(x, key) THEN x.v[key] ELSE JStr(""))
      [] x.t = "faulty" -> Raise(x.v)
      [] OTHER -> Raise("AttributeError")

\* isinstance(coordinator_get, bool) and coordinator_get
IsBoolTrueTruthy(coordinator_get) == Truthy(coordinator_get)
IsBoolTrue(coordinator_get) == coordinator_get.t = "bool" /\ coordinator_get.v

\* AudiobookshelfBinarySensor.is_on with coordinator.data = cdata
is_on(cdata) ==
    LET connectivity == PyGet(cdata, "connectivity")
        coordinator_get == IF connectivity.raised # "none" THEN connectivity
                           ELSE PyGet(connectivity.value, "success")
    IN  IF coordinator_get.raised = "none"
        THEN Ret(JBool(IsBoolTrue(coordinator_get.value)))
        ELSE IF coordinator_get.raised = "KeyError" THEN Ret(JBool(FALSE))
        ELSE IF coordinator_get.raised = "AttributeError" THEN Ret(JBool(FALSE))
        ELSE Raise(coordinator_get.raised)

\* what the binary sensor's coordinator may hold
Faulties == {Faulty(exc) : exc \in {"KeyError", "AttributeError", "TypeError", "RuntimeError"}}
SuccessValues ==
    {JBool(TRUE), JBool(FALSE), JNum(0), JNum(1), JFloat(100), JStr(""), JStr("true"),
     JNull, JArr(<<>>), JObj(EmptyDict)}
NonObjects ==
    {JNull, JBool(TRUE), JBool(FALSE), JNum(0), JNum(1), JStr(""), JStr("ok"),
     JArr(<<>>), JArr(<<JBool(TRUE)>>)}
ConnectivityValues ==
    NonObjects \cup Faulties \cup {JObj(EmptyDict)}
    \cup {JObj([success |-> s]) : s \in SuccessValues}
    \cup {JObj([success |-> s, message |-> JStr("ok")]) : s \in SuccessValues}
CoordinatorDatas ==
    {PyNone, JObj(EmptyDict)} \cup Faulties
    \cup {JObj([connectivity |-> c]) : c \in ConnectivityValues}
    \cup {JObj(("connectivity" :> c) @@ ("api/users" :> JObj(EmptyDict))) :
            c \in ConnectivityValues}

NoBinarySensor == [data |-> PyNone, read |-> FALSE, is_on |-> Ret(PyNone)]

(* ------------------------------- state -------------------------------- *)
VARIABLES
    sensors,              \* the module-level registry `sensors` (sensor.py)
    pc,                   \* where the setup of the config entry stands
    probe,                \* the answer to the connectivity probe of __init__.py
    discovery,            \* the answer get_libraries got and the list it gave
    data,                 \* coordinator.data: None or {endpoint: payload}
    last_update_success,  \* coordinator.last_update_success
    cycle,                \* the activation of _async_update_data
    pending,              \* entities given to async_add_entities, not yet added
    entities,             \* the entities added to the host, in platform order
    calls,                \* the last round of entity calls and how each ended
    cycles,               \* periodic refreshes this coordinator has started
    binary_sensor         \* the binary sensor: its coordinator's data, is_on read

vars == << sensors, pc, probe, discovery, data, last_update_success, cycle,
           pending, entities, calls, cycles, binary_sensor >>

\* the status line of an answer
Answer(resp) == [kind |-> resp.kind, status |-> resp.status]
NoAnswer == [kind |-> "none", status |-> 0]
AnswerOk(a) == a.kind = "response" /\ a.status = HTTP_OK
NoDiscovery == [answer |-> NoAnswer, libraries |-> <<>>]
IdleCycle ==
    [status |-> "idle", first |-> FALSE, registry |-> <<>>, unique_endpoints |-> <<>>,
     gets |-> 0, answer |-> NoAnswer]
NoCalls == [op |-> "none", results |-> <<>>]

\* the endpoints of the descriptors reg[i..], those of `seen` left out, each
\* once
RECURSIVE Distinct(_, _, _)
Distinct(reg, i, seen) ==
    IF i > Len(reg) THEN <<>>
    ELSE IF reg[i].endpoint \in seen THEN Distinct(reg, i + 1, seen)
    ELSE <<reg[i].endpoint>> \o Distinct(reg, i + 1, seen \cup {reg[i].endpoint})

\* what the loop of _async_update_data runs over: the set unique_endpoints,
\* each endpoint once (a set has no order of its own; the loop's passes only
\* fill the local mapping, so the model takes them in registry order)
EndpointsPerSensor(reg) == [i \in 1..Len(reg) |-> reg[i].endpoint]
EndpointsToFetch(reg) == Distinct(reg, 1, {})

\* the start of _async_update_data: data = {}, unique_endpoints computed
\* from the registry as it is now
BeginCycle(reg, first) ==
    [status |-> "fetching", first |-> first, registry |-> reg,
     unique_endpoints |-> EndpointsToFetch(reg), gets |-> 0, answer |-> NoAnswer]

Init ==
    /\ sensors = FixedSensors
    /\ pc = "not_loaded"
    /\ probe = NoAnswer
    /\ discovery = NoDiscovery
    /\ data = PyNone
    /\ last_update_success = TRUE
    /\ cycle = IdleCycle
    /\ pending = <<>>
    /\ entities = <<>>
    /\ calls = NoCalls
    /\ cycles = 0
    /\ binary_sensor = NoBinarySensor

(* --------------------- __init__.async_setup_entry --------------------- *)
\* has_data: entry.data is not None; resp: the answer to the probe GET;
\* valid: validate_config returns.  "forwarded": the platforms are set up.
SetupOutcomeAnyStatus(has_data, resp, valid) ==
    IF ~has_data THEN "not_ready"
    ELSE IF resp.kind = "ClientError" THEN "not_ready"
    ELSE IF ~valid THEN "failed"
    ELSE "forwarded"
SetupOutcome(has_data, resp, valid) ==
    IF ~has_data THEN "not_ready"
    ELSE IF resp.kind = "ClientError" THEN "not_ready"
    ELSE IF resp.status # HTTP_OK THEN "not_ready"
    ELSE IF ~valid THEN "failed"
    ELSE "forwarded"

SetupEntry(has_data, resp, valid) ==
    /\ UNCHANGED binary_sensor
    /\ pc \in {"not_loaded", "not_ready", "failed"}
    /\ probe' = IF has_data THEN Answer(resp) ELSE NoAnswer
    /\ pc' = SetupOutcome(has_data, resp, valid)
    /\ discovery' = NoDiscovery
    /\ calls' = NoCalls
    /\ cycles' = 0
    /\ UNCHANGED << sensors, data, last_update_success, cycle, pending, entities >>

(* ---------------------- sensor.async_setup_entry ---------------------- *)
\* lines 187-204: the platform's own probe, then the coordinator is made
PlatformProbe(resp) ==
    /\ UNCHANGED binary_sensor
    /\ pc = "forwarded"
    /\ pc' = IF Ok(resp) THEN "discover" ELSE "failed"
    /\ data' = PyNone
    /\ last_update_success' = TRUE
    /\ cycle' = IdleCycle
    /\ calls' = NoCalls
    /\ UNCHANGED << sensors, probe, discovery, pending, entities, cycles >>

\* lines 207-212 up to the first GET of the first refresh
DiscoverLibraries(resp) ==
    /\ UNCHANGED binary_sensor
    /\ pc = "discover"
    /\ LET libraries == get_libraries(resp) IN
       IF libraries.raised # "none"
       THEN /\ pc' = "failed"
            /\ UNCHANGED << sensors, cycle, discovery >>
       ELSE /\ sensors' = generate_library_sensors(sensors, libraries.value)
            /\ discovery' = [answer |-> Answer(resp), libraries |-> libraries.value]
            /\ cycle' = BeginCycle(sensors', TRUE)
            /\ pc' = "first_refresh"
    /\ calls' = NoCalls
    /\ UNCHANGED << probe, data, last_update_success, pending, entities, cycles >>

(* ------------------------ _async_update_data -------------------------- *)
\* a periodic refresh starts (the coordinator has a listener)
StartCycle ==
    /\ UNCHANGED binary_sensor
    /\ pc = "loaded"
    /\ cycle.status # "fetching"
    /\ entities # <<>>
    /\ cycles < MaxCycles
    /\ cycles' = cycles + 1
    /\ cycle' = BeginCycle(sensors, FALSE)
    /\ calls' = NoCalls
    /\ UNCHANGED << sensors, pc, probe, discovery, data, last_update_success,
                    pending, entities >>

\* a bad answer inside the loop: UpdateFailed leaves _async_update_data with
\* what was fetched; nothing is returned
FailedFetchReturning(acc, resp) ==
    [failed |-> FALSE, data |-> acc.data, gets |-> acc.gets + 1, answer |-> Answer(resp)]
FailedFetch(acc, resp) ==
    [failed |-> TRUE, data |-> EmptyDict, gets |-> acc.gets + 1, answer |-> Answer(resp)]

\* data[endpoint] = await response.json()
StoreFirstOnly(mapping, endpoint, body) ==
    IF mapping = EmptyDict THEN (endpoint :> body) ELSE mapping
Store(mapping, endpoint, body) == (endpoint :> body) @@ mapping

\* the loop `for endpoint in unique_endpoints`: one GET each, answers[e]
\* being the answer to the GET of e
RECURSIVE FetchAll(_, _, _)
FetchAll(todo, answers, acc) ==
    IF todo = <<>> THEN acc
    ELSE LET endpoint == Head(todo)
             resp == answers[endpoint]
         IN  IF Ok(resp)
             THEN FetchAll(Tail(todo), answers,
                    [failed |-> FALSE, data |-> Store(acc.data, endpoint, resp.body),
                     gets |-> acc.gets + 1, answer |-> Answer(resp)])
             ELSE FailedFetch(acc, resp)

\* _async_update_data from its first GET on, and what the coordinator and
\* the platform do with its outcome: the returned mapping becomes the
\* coordinator's data, and after the first refresh the platform makes its
\* entities (lines 215-221); UpdateFailed leaves the data as it is, and
\* from the first refresh it ends the platform's setup
CompleteCycle(answers) ==
    /\ UNCHANGED binary_sensor
    /\ cycle.status = "fetching"
    /\ calls' = NoCalls
    /\ LET run == FetchAll(cycle.unique_endpoints, answers,
                           [failed |-> FALSE, data |-> EmptyDict, gets |-> 0,
                            answer |-> NoAnswer])
       IN  /\ cycle' = [cycle EXCEPT !.status = IF run.failed THEN "failed" ELSE "success",
                                     !.gets = run.gets, !.answer = run.answer]
           /\ last_update_success' = ~run.failed
           /\ data' = IF run.failed THEN data ELSE JObj(run.data)
           /\ pc' = IF ~cycle.first THEN pc
                    ELSE IF run.failed THEN "failed" ELSE "loaded"
           /\ pending' = IF cycle.first /\ ~run.failed
                         THEN [i \in 1..Len(sensors) |-> AudiobookshelfSensor(sensors[i])]
                         ELSE pending
    /\ UNCHANGED << sensors, probe, discovery, entities, cycles >>

\* the answers the server may give to the GETs of one cycle: a good one to
\* each, with any of the bodies, or good ones to all but one
StatsEndpoints == {StatsEndpoint(id) : id \in LibraryIds}
AllEndpoints ==
    {"api/users", "api/users/online", "api/libraries", "api/authorize"} \cup StatsEndpoints
RECURSIVE AnswersTo(_)
AnswersTo(endpoints) ==
    IF endpoints = {} THEN {<<>>}
    ELSE LET e == CHOOSE x \in endpoints : TRUE
         IN  { (e :> Http(HTTP_OK, b)) @@ rest :
                 b \in Bodies(e), rest \in AnswersTo(endpoints \ {e}) }
GoodAnswers == AnswersTo(AllEndpoints)
\* the first endpoint of the loop, and one with others before it
BadEndpoints == {"api/users", "api/authorize"}
OneBadAnswer ==
    { [e \in AllEndpoints |->
         IF e = bad THEN failure ELSE Http(HTTP_OK, CHOOSE b \in Bodies(e) : TRUE)] :
        bad \in BadEndpoints, failure \in Failures }
CycleAnswers == GoodAnswers \cup OneBadAnswer

(* ------------------------------ entities ------------------------------ *)
Result(ent, r, restored) ==
    [key |-> ent.key, raised |-> r.raised, attributes_called |-> r.attributes_called,
     data_called |-> r.data_called, restored |-> restored]

\* async_add_entities(entities, update_before_add=True): the host takes the
\* entities in turn; it runs async_update first, and an update that raises
\* leaves the entity out; then async_added_to_hass runs with what the host
\* has persisted for the entity.  acc: the entities added, the results and
\* the coordinator data so far.
RECURSIVE AddEach(_, _, _)
AddEach(todo, last_state, acc) ==
    IF todo = <<>> THEN acc
    ELSE LET ent == Head(todo)
             r == async_update(ent, acc.data)
             added == async_added_to_hass(r.entity, last_state)
         IN  AddEach(Tail(todo), last_state,
               IF r.raised # "none"
               THEN [entities |-> acc.entities,
                     results |-> Append(acc.results, Result(ent, r, FALSE)),
                     data |-> r.data]
               ELSE [entities |-> Append(acc.entities, added),
                     results |-> Append(acc.results, Result(ent, r, added # r.entity)),
                     data |-> r.data])

\* a host that restarts has persisted a state for every sensor, a fresh one
\* for none
AddEntities(last_state) ==
    /\ UNCHANGED binary_sensor
    /\ pending # <<>>
    /\ LET done == AddEach(pending, last_state,
                           [entities |-> entities, results |-> <<>>, data |-> data])
       IN  /\ entities' = done.entities
           /\ data' = done.data
           /\ calls' = [op |-> "add", results |-> done.results]
    /\ pending' = <<>>
    /\ UNCHANGED << sensors, pc, probe, discovery, last_update_success, cycle, cycles >>

\* the host's polling round: async_update of every added entity, in turn
RECURSIVE PollEach(_, _)
PollEach(todo, acc) ==
    IF todo = <<>> THEN acc
    ELSE LET ent == Head(todo)
             r == async_update(ent, acc.data)
         IN  PollEach(Tail(todo),
               [entities |-> Append(acc.entities, r.entity),
                results |-> Append(acc.results, Result(ent, r, FALSE)),
                data |-> r.data])

PollEntities ==
    /\ UNCHANGED binary_sensor
    /\ entities # <<>>
    /\ LET done == PollEach(entities, [entities |-> <<>>, results |-> <<>>, data |-> data])
       IN  /\ entities' = done.entities
           /\ data' = done.data
           /\ calls' = [op |-> "poll", results |-> done.results]
    /\ UNCHANGED << sensors, pc, probe, discovery, last_update_success, cycle,
                    pending, cycles >>

(* --------------------------- other lifecycle -------------------------- *)
\* async_unload_entry: the platforms are unloaded, the entities and the
\* coordinator go; the module-level registry stays
UnloadClearingRegistry ==
    /\ UNCHANGED binary_sensor
    /\ pc = "loaded"
    /\ pc' = "not_loaded"
    /\ probe' = NoAnswer
    /\ discovery' = NoDiscovery
    /\ data' = PyNone
    /\ last_update_success' = TRUE
    /\ cycle' = IdleCycle
    /\ pending' = <<>>
    /\ entities' = <<>>
    /\ calls' = NoCalls
    /\ cycles' = 0
    /\ sensors' = FixedSensors
\* async_unload_entry
Unload ==
    /\ UNCHANGED binary_sensor
    /\ pc = "loaded"
    /\ pc' = "not_loaded"
    /\ probe' = NoAnswer
    /\ discovery' = NoDiscovery
    /\ data' = PyNone
    /\ last_update_success' = TRUE
    /\ cycle' = IdleCycle
    /\ pending' = <<>>
    /\ entities' = <<>>
    /\ calls' = NoCalls
    /\ cycles' = 0
    /\ UNCHANGED sensors

\* the sensor platform of another config entry of the same process reaches
\* line 209 with the libraries it discovered: the registry is shared
OtherEntryGenerate(resp) ==
    /\ UNCHANGED binary_sensor
    /\ get_libraries(resp).raised = "none"
    /\ sensors' = generate_library_sensors(sensors, get_libraries(resp).value)
    /\ sensors' # sensors
    /\ calls' = NoCalls
    /\ UNCHANGED << pc, probe, discovery, data, last_update_success, cycle, pending,
                    entities, cycles >>

Next ==
    \/ \E has_data \in BOOLEAN, valid \in BOOLEAN, resp \in DiscoveryResponses :
          SetupEntry(has_data, resp, valid)
    \/ \E resp \in DiscoveryResponses : PlatformProbe(resp)
    \/ \E resp \in DiscoveryResponses : DiscoverLibraries(resp)
    \/ StartCycle
    \/ \E answers \in CycleAnswers : CompleteCycle(answers)
    \/ \E last_state \in LastStates : AddEntities(last_state)
    \/ PollEntities
    \/ Unload
    \/ \E resp \in DiscoveryResponses : OtherEntryGenerate(resp)

Spec == Init /\ [][Next]_vars

(* ------------------------ is_on as a function -------------------------- *)
\* the binary sensor over any coordinator data; the host reads is_on
InitIsOn ==
    /\ sensors = FixedSensors
    /\ pc = "not_loaded"
    /\ probe = NoAnswer
    /\ discovery = NoDiscovery
    /\ data = PyNone
    /\ last_update_success = TRUE
    /\ cycle = IdleCycle
    /\ pending = <<>>
    /\ entities = <<>>
    /\ calls = NoCalls
    /\ cycles = 0
    /\ binary_sensor \in {[NoBinarySensor EXCEPT !.data = d] : d \in CoordinatorDatas}

ReadIsOn ==
    /\ ~binary_sensor.read
    /\ binary_sensor' = [binary_sensor EXCEPT !.read = TRUE,
                                               !.is_on = is_on(binary_sensor.data)]
    /\ UNCHANGED << sensors, pc, probe, discovery, data, last_update_success, cycle,
                    pending, entities, calls, cycles >>

NextIsOn == ReadIsOn

IsOnSpec == InitIsOn /\ [][NextIsOn]_vars

TypeOK ==
    /\ pc \in {"not_loaded", "not_ready", "failed", "forwarded", "discover",
               "first_refresh", "loaded"}
    /\ cycle.status \in {"idle", "fetching", "success", "failed"}
    /\ data.t \in {"null", "obj"}
    /\ last_update_success \in BOOLEAN
    /\ cycles \in 0..MaxCycles


(* ------------------------------ properties ---------------------------- *)
Has(seq, key) == \E i \in 1..Len(seq) : seq[i].key = key
Get(seq, key) == seq[CHOOSE i \in 1..Len(seq) : seq[i].key = key]
\* the payload async_update works on: the cached one, or {} when the
\* endpoint is not in the mapping
PayloadSeen(ent, cdata) ==
    IF HasKey(cdata, ent.endpoint) THEN cdata.v[ent.endpoint] ELSE JObj(EmptyDict)
\* a step that is a round of entity updates, and the entities it started with
IsRound == calls'.op \in {"add", "poll"}
Before(key) == IF calls'.op = "add" THEN Get(pending, key) ELSE Get(entities, key)

\* C1: an async_update that computes a value v for an entity in state s
\* leaves s when v is 0 or null and s is neither, and stores v in every other
\* case
C1_ZeroNullSuppression ==
    [][IsRound =>
        \A i \in DOMAIN calls'.results :
            LET res == calls'.results[i]
                s == Before(res.key).state
                v == ProcessData(Before(res.key).data_function,
                                 PayloadSeen(Before(res.key), data')).value
            IN  (res.data_called /\ res.raised = "none" /\ ~res.restored) =>
                    Get(entities', res.key).state =
                        IF InZeroNone(v) /\ ~InZeroNone(s) THEN s ELSE v]_vars

\* a poll has just computed 0 for an entity whose state is neither 0 nor null
C1_Witness ==
    /\ calls.op = "poll"
    /\ \E i \in DOMAIN calls.results :
          /\ calls.results[i].data_called
          /\ calls.results[i].raised = "none"
          /\ ~InZeroNone(entities[i].state)
          /\ ProcessData(entities[i].data_function, PayloadSeen(entities[i], data)).value
               = JNum(0)

\* C2: a refresh cycle that gets a bad answer ends failed, and it leaves the
\* coordinator's data as it was; the data changes only when a cycle succeeds,
\* in a round of entity updates, or when the coordinator goes
C2_FailedCycleKeepsData ==
    [][/\ (cycle.status = "fetching" /\ cycle'.status \in {"success", "failed"}
             /\ ~AnswerOk(cycle'.answer))
          => (cycle'.status = "failed" /\ ~last_update_success' /\ data' = data)
       /\ (data' # data)
          => \/ cycle.status = "fetching" /\ cycle'.status = "success"
             \/ IsRound
             \/ data' = PyNone]_vars

\* a periodic cycle has failed and the entities still see the last mapping
C2_Witness ==
    /\ cycle.status = "failed"
    /\ ~cycle.first
    /\ cycle.gets > 1
    /\ entities # <<>>
    /\ data # PyNone

\* C3: a cycle that succeeds has issued as many GETs as the registry it
\* started from has distinct endpoints
C3_OneGetPerEndpoint ==
    cycle.status = "success" =>
        cycle.gets = Cardinality({cycle.registry[i].endpoint :
                                    i \in 1..Len(cycle.registry)})

\* a cycle over a registry with the three descriptors of a library succeeded
C3_Witness ==
    /\ cycle.status = "success"
    /\ Len(cycle.registry) > cycle.gets

LibraryKeys(id) ==
    {"library_" \o id \o "_size", "library_" \o id \o "_items",
     "library_" \o id \o "_duration"}
RECURSIVE Reverse(_)
Reverse(seq) == IF seq = <<>> THEN <<>> ELSE Append(Reverse(Tail(seq)), Head(seq))

\* C4: once generate_library_sensors has run on the discovered libraries, the
\* registry holds exactly three descriptors keyed by each library's id, and
\* running it again on the same ids changes neither the keys nor the size
C4_ThreePerLibraryIdempotent ==
    discovery.answer # NoAnswer =>
        /\ \A i \in DOMAIN discovery.libraries :
              /\ Cardinality({j \in 1..Len(sensors) :
                                sensors[j].key \in LibraryKeys(discovery.libraries[i].id)}) = 3
              /\ LibraryKeys(discovery.libraries[i].id) \subseteq Keys(sensors)
        /\ \A again \in {discovery.libraries, Reverse(discovery.libraries)} :
              /\ Keys(generate_library_sensors(sensors, again)) = Keys(sensors)
              /\ Len(generate_library_sensors(sensors, again)) = Len(sensors)

\* a second setup has discovered a library the registry already held
C4_Witness ==
    /\ pc = "loaded"
    /\ discovery.libraries # <<>>
    /\ Len(sensors) = 4 + 3 * MaxLibraries

\* C8: the platforms are set up, and entities exist, only after the probe
\* was answered with 200; any other answer leaves the entry not ready
C8_ForwardOnlyAfter200 ==
    /\ (pc \in {"forwarded", "discover", "first_refresh", "loaded"}
          \/ pending # <<>> \/ entities # <<>>)
       => AnswerOk(probe)
    /\ (probe # NoAnswer /\ ~AnswerOk(probe))
       => (pc = "not_ready" /\ pending = <<>> /\ entities = <<>>)

\* the entities were added after a probe answered with 200
C8_Witness == pc = "loaded" /\ entities # <<>> /\ AnswerOk(probe)

\* the endpoint of an entity is not a key of the non-empty cached mapping /
\* it is a key and its payload is not an object
Absent(ent, cdata) == Truthy(cdata) /\ ~HasKey(cdata, ent.endpoint)
NotAnObject(ent, cdata) ==
    HasKey(cdata, ent.endpoint) /\ cdata.v[ent.endpoint].t # "obj"
Unchanged(res) ==
    /\ Has(entities', res.key)
    /\ Get(entities', res.key).state = Before(res.key).state
    /\ Get(entities', res.key).extra_state_attributes =
         Before(res.key).extra_state_attributes

\* C5 as stated: an async_update whose endpoint is absent from the cached
\* mapping, or whose cached payload is not an object, applies neither
\* extraction function and leaves state and attributes unchanged
C5_AbsentOrNonObjectAppliesNothing ==
    [][IsRound =>
        \A i \in DOMAIN calls'.results :
            LET res == calls'.results[i] IN
            (Absent(Before(res.key), data) \/ NotAnObject(Before(res.key), data)) =>
                /\ ~res.attributes_called
                /\ ~res.data_called
                /\ res.raised = "none"
                /\ ~res.restored => Unchanged(res)]_vars

\* C5 amended: a payload that is not an object makes async_update a no-op,
\* neither extraction function being applied; an endpoint absent from the
\* cached mapping has both functions applied to an empty object, and state
\* and attributes are unchanged in both cases
C5_NoOpOnNonObjectAbsentProcessedAsEmpty ==
    [][IsRound =>
        \A i \in DOMAIN calls'.results :
            LET res == calls'.results[i] IN
            /\ NotAnObject(Before(res.key), data) =>
                  /\ ~res.attributes_called
                  /\ ~res.data_called
                  /\ res.raised = "none"
                  /\ ~res.restored => Unchanged(res)
            /\ Absent(Before(res.key), data) =>
                  /\ res.attributes_called
                  /\ res.data_called
                  /\ res.raised = "none"
                  /\ ~res.restored => Unchanged(res)]_vars

\* a round has updated an entity whose endpoint is not in the cached mapping
\* and one whose cached payload is a list
C5_Witness ==
    /\ calls.op \in {"add", "poll"}
    /\ \E i \in DOMAIN calls.results :
          /\ Has(entities, calls.results[i].key)
          /\ Absent(Get(entities, calls.results[i].key), data)
          /\ calls.results[i].data_called
    /\ \E i \in DOMAIN calls.results :
          /\ Has(entities, calls.results[i].key)
          /\ NotAnObject(Get(entities, calls.results[i].key), data)
          /\ ~calls.results[i].data_called

\* C6 as stated: an extraction that fails on its payload is caught inside the
\* sensor's update: no update of a round raises, and every sensor of the
\* round is there afterwards with the state it had
C6_ExtractionFailureCaught ==
    [][IsRound =>
        \A i \in DOMAIN calls'.results :
            LET res == calls'.results[i]
                before == Before(res.key)
                failed == \/ ProcessAttributes(before.attributes_function,
                                               PayloadSeen(before, data)).raised # "none"
                          \/ ProcessData(before.data_function,
                                         PayloadSeen(before, data)).raised # "none"
            IN  (res.attributes_called /\ failed) =>
                    /\ res.raised = "none"
                    /\ Has(entities', res.key)
                    /\ Get(entities', res.key).state = before.state]_vars

\* C7 as stated: a round of entity updates leaves the coordinator's cached
\* payloads as they were
C7_UpdateOnlyReadsCache == [][IsRound => data' = data]_vars

\* C9 as stated: a discovery answered with a non-200 status or a transport
\* error gives the empty list, and the platform then makes entities for the
\* four fixed sensors only
C9_FailedDiscoveryOnlyFixedSensors ==
    (discovery.answer # NoAnswer /\ ~AnswerOk(discovery.answer)) =>
        /\ discovery.libraries = <<>>
        /\ \A i \in DOMAIN pending : pending[i].key \in Keys(FixedSensors)
        /\ \A i \in DOMAIN entities : entities[i].key \in Keys(FixedSensors)

\* C10 as stated: on addition with a persisted last state every sensor but
\* the api/authorize one displays that state and its attributes, no value
\* having been computed from fetched data before; the api/authorize sensor
\* takes no restored state
C10_RestoreBeforeFirstRefresh ==
    [][calls'.op = "add" =>
        \A i \in DOMAIN calls'.results :
            LET res == calls'.results[i] IN
            /\ Before(res.key).endpoint = "api/authorize" => ~res.restored
            /\ res.restored =>
                  /\ Get(entities', res.key).state = StoredLastState.state
                  /\ Get(entities', res.key).extra_state_attributes =
                       StoredLastState.attributes
                  /\ ~res.data_called]_vars

\* the error the accesses of is_on meet on coordinator data d, "none" if none
AccessError(d) ==
    IF d.t = "faulty" THEN d.v
    ELSE IF d.t # "obj" THEN "AttributeError"
    ELSE IF ~HasKey(d, "connectivity") THEN "AttributeError"
    ELSE IF d.v["connectivity"].t = "faulty" THEN d.v["connectivity"].v
    ELSE IF d.v["connectivity"].t # "obj" THEN "AttributeError"
    ELSE "none"
SuccessIsTrue(d) ==
    /\ AccessError(d) = "none"
    /\ HasKey(d.v["connectivity"], "success")
    /\ d.v["connectivity"].v["success"] = JBool(TRUE)

\* C11: is_on is true exactly when the coordinator data has a "connectivity"
\* object whose "success" is the boolean true; it is false, nothing raised,
\* when the data is null, the key is missing, the value is not an object or
\* "success" is missing or not a boolean; an error that is neither a
\* KeyError nor an AttributeError leaves is_on
C11_IsOnExactlySuccessTrue ==
    binary_sensor.read =>
        IF AccessError(binary_sensor.data) \in {"none", "KeyError", "AttributeError"}
        THEN binary_sensor.is_on = Ret(JBool(SuccessIsTrue(binary_sensor.data)))
        ELSE binary_sensor.is_on = Raise(AccessError(binary_sensor.data))

\* is_on was read and gave true
C11_Witness == binary_sensor.read /\ binary_sensor.is_on = Ret(JBool(TRUE))

\* C12: a cycle that succeeds leaves a mapping whose keys are exactly the
\* distinct endpoints of the registry the cycle started from and whose values
\* are payloads as the server gives them; no other step changes the key set
\* of the mapping the entities read
C12_CacheFullyReplaced ==
    [][/\ (cycle.status = "fetching" /\ cycle'.status = "success") =>
            /\ data'.t = "obj"
            /\ DOMAIN data'.v = UniqueEndpoints(cycle.registry)
            /\ \A e \in DOMAIN data'.v : data'.v[e] \in Bodies(e)
       /\ (data' # PyNone /\ ~(cycle.status = "fetching" /\ cycle'.status = "success")) =>
            /\ data # PyNone
            /\ DOMAIN data'.v = DOMAIN data.v]_vars

\* a periodic cycle has succeeded after the users sensor had redacted the
\* tokens of the earlier mapping: the tokens are the fetched ones again
C12_Witness ==
    /\ cycle.status = "success"
    /\ ~cycle.first
    /\ Has(entities, "users")
    /\ calls.op = "none"
    /\ data.v["api/users"] \in UsersBodies

\* Python's == between a number of the model and the integer n
NumEq(x, n) == (x.t = "num" /\ x.v = n) \/ (x.t = "float" /\ x.v = 100 * n)
ScenarioStats ==
    JObj([totalSize |-> JNum(1073741824), totalItems |-> JNum(10),
          totalDuration |-> JNum(3600)])
\* the update of the entity `key` ran in the last round and stored a value
Updated(key) ==
    \E i \in DOMAIN calls.results :
        /\ calls.results[i].key = key
        /\ calls.results[i].data_called
        /\ calls.results[i].raised = "none"
        /\ ~calls.results[i].restored

\* C13: with discovery answered by the single library lib1 "Books" and no
\* other library in the registry, the registry has exactly 7 descriptors;
\* with the stats of lib1 cached as totalSize 1073741824, totalItems 10 and
\* totalDuration 3600, the updates of the three sensors of lib1 give 1.0, 10
\* and 1
C13_EndToEndLib1 ==
    /\ (/\ Len(discovery.libraries) = 1
        /\ discovery.libraries[1].id = "lib1"
        /\ discovery.libraries[1].name = "Books"
        /\ Keys(sensors) \subseteq Keys(FixedSensors) \cup LibraryKeys("lib1"))
       => /\ Len(sensors) = 7
          /\ Keys(sensors) = Keys(FixedSensors) \cup LibraryKeys("lib1")
    /\ (/\ calls.op \in {"add", "poll"}
        /\ HasKey(data, StatsEndpoint("lib1"))
        /\ data.v[StatsEndpoint("lib1")] = ScenarioStats)
       => /\ Updated("library_lib1_size") =>
                Get(entities, "library_lib1_size").state = JFloat(100)
          /\ Updated("library_lib1_items") =>
                Get(entities, "library_lib1_items").state = JNum(10)
          /\ Updated("library_lib1_duration") =>
                NumEq(Get(entities, "library_lib1_duration").state, 1)

\* the scenario: lib1 discovered, 7 descriptors, a periodic cycle succeeded
\* and the three sensors of lib1 were updated on its stats
C13_Witness ==
    /\ pc = "loaded"
    /\ AnswerOk(probe)
    /\ Len(discovery.libraries) = 1
    /\ discovery.libraries[1].id = "lib1"
    /\ Len(sensors) = 7
    /\ cycle.status = "success"
    /\ ~cycle.first
    /\ calls.op = "poll"
    /\ HasKey(data, StatsEndpoint("lib1"))
    /\ data.v[StatsEndpoint("lib1")] = ScenarioStats
    /\ Updated("library_lib1_size")
    /\ Updated("library_lib1_items")
    /\ Updated("library_lib1_duration")
    /\ Get(entities, "library_lib1_size").state = JFloat(100)

\* what a polling round of the entities gives on coordinator data cdata
Polled(cdata) == PollEach(entities, [entities |-> <<>>, results |-> <<>>, data |-> cdata])

\* C14 as stated: the step that completes a successful refresh runs the
\* update of every added entity on the new mapping: each entity has the
\* state its update computes from the new payload
C14_RefreshTriggersUpdates ==
    [][(cycle.status = "fetching" /\ cycle'.status = "success" /\ entities # <<>>) =>
          /\ Len(entities') = Len(entities)
          /\ \A i \in DOMAIN entities :
                entities'[i].state = Polled(data').entities[i].state]_vars

\* the libraries whose three descriptors the registry reg holds
LibrariesOf(reg) == {id \in LibraryIds : LibraryKeys(id) \subseteq Keys(reg)}

\* C15: the registry never loses a key; a setup that discovers libraries
\* adds their three descriptors each to what the registry held; and every
\* cycle started later fetches the endpoint of every descriptor, those of
\* libraries the running setup did not discover included
C15_RegistryOnlyGrows ==
    [][/\ Keys(sensors) \subseteq Keys(sensors')
       /\ Len(sensors') = 4 + 3 * Cardinality(LibrariesOf(sensors'))
       /\ (pc = "discover" /\ pc' = "first_refresh") =>
             Keys(sensors') =
                Keys(sensors) \cup UNION {LibraryKeys(discovery'.libraries[i].id) :
                                            i \in DOMAIN discovery'.libraries}
       /\ (cycle.status # "fetching" /\ cycle'.status = "fetching") =>
             \A id \in LibrariesOf(sensors') :
                 \E k \in DOMAIN cycle'.unique_endpoints :
                     cycle'.unique_endpoints[k] = StatsEndpoint(id)
       /\ (cycle.status = "fetching" /\ cycle'.status = "success") =>
             \A id \in LibrariesOf(cycle.registry) : HasKey(data', StatsEndpoint(id))]_vars

\* a setup that discovered no library runs on a registry that holds lib1 from
\* before, and its periodic cycle has fetched the stats of lib1
C15_Witness ==
    /\ pc = "loaded"
    /\ AnswerOk(discovery.answer)
    /\ discovery.libraries = <<>>
    /\ "lib1" \in LibrariesOf(sensors)
    /\ cycle.status = "success"
    /\ ~cycle.first
    /\ HasKey(data, StatsEndpoint("lib1"))

====
